---- MODULE Spec2Model ----
(***************************************************************************)
(* Model of tuning/sft_trainer.py: the entry point main(), the             *)
(* orchestration function train() and the FileLoggingCallback that exports *)
(* loss metrics to training_logs.jsonl.                                    *)
(*                                                                         *)
(* Python None is the string "None" wherever a value may be absent.        *)
(* A Python number is a record [type, val]: type is "float", "int" or      *)
(* "nan" (the float NaN) and val is the number in tenths (-15 is -1.5).    *)
(***************************************************************************)
EXTENDS Integers, Sequences, FiniteSets, TLC

\* ------------------------------------------------------------------ bounds
\* Number of participants (processes) of a distributed run that receive the
\* trainer's log events.
NumProcs == 2
\* Number of log events the trainer emits in one run of the logging model.
MaxEvents == 2
\* Number of records of a loaded JSON-lines dataset.
MaxRecords == 1

None == "None"

\* ------------------------------------------------------- variables (job)
VARIABLES
    cfg,                  \* the caller's inputs (never assigned after Init)
    pc,                   \* position of the process in main() / train()
    error,                \* the exception that ended the run, or None
    loads,                \* the load calls made so far, in order
    callbacks,            \* the callbacks list: [none, items]
    metadata,             \* main's metadata / train's exp_metadata
    tokenizer,            \* [loaded, family, tokens]
    special_tokens_dict,  \* names of the tokens detected missing
    resized,              \* tokenizer_and_embedding_resize has returned
    response_template_ids,\* None, or the tag of the encoded template
    data_collator,        \* [none, response_template_ids]: None or the collator
    packing,              \* train's local `packing`: None (unbound), "True", "False"
    json_dataset,         \* [loaded, train, validation]: the records as loaded
    datasets,             \* [train, validation]: the formatted datasets
    trainer,              \* [built, ...]: the SFTTrainer and its arguments
    trackerCalls,         \* calls made on the tracker, in order
    logged                \* messages logged through logger.error / warning

\* --------------------------------------------------- variables (logging)
VARIABLES
    zeroProc,             \* the participant that is world process zero
    events,               \* log events emitted by the trainer, in order
    pos,                  \* pos[p]: events participant p has handled
    logFile,              \* lines of <output_dir>/training_logs.jsonl
    opens                 \* participants that opened the file, in order

jobVars == <<cfg, pc, error, loads, callbacks, metadata, tokenizer,
             special_tokens_dict, resized, response_template_ids,
             data_collator, packing, json_dataset, datasets, trainer,
             trackerCalls, logged>>
logVars == <<zeroProc, events, pos, logFile, opens>>
vars == <<jobVars, logVars>>

\* ------------------------------------------------------------------ inputs
PyFloat(v) == [type |-> "float", val |-> v]
PyInt(v) == [type |-> "int", val |-> v]
NaN == [type |-> "nan", val |-> 0]

\* train_args.num_train_epochs: -1.5, 0.0, 1.0, float("nan") and the int 3.
EpochInputs == {PyFloat(-15), PyFloat(0), PyFloat(10), NaN, PyInt(30)}
\* train_args.gradient_accumulation_steps: 0, 1 and the float 1.0.
GradAccInputs == {PyInt(0), PyInt(10), PyFloat(10)}

ResponseTemplates == {None, "\n### Response:"}
TextFields == {None, "output"}
ValidationPaths == {None, "validation.json"}

\* trainer_controller_args: None, an object whose config file is None, or an
\* object with a config file.
ControllerArgs ==
    { [none |-> TRUE, trainer_controller_config_file |-> None],
      [none |-> FALSE, trainer_controller_config_file |-> None],
      [none |-> FALSE, trainer_controller_config_file |-> "controller.yaml"] }

\* --exp_metadata on the command line: absent, a JSON object, a JSON array,
\* the JSON literal null, and text that is not JSON.
ValidMetadata == "{\"gpu\":\"A100-80G\"}"
ExpMetadataInputs == {None, ValidMetadata, "[1, 2]", "null", "{not json"}

\* What tracker.get_hf_callback() returns.
TrackerCallbacks == {None, "tracker_callback"}

NoCallbacks == [none |-> TRUE, items |-> <<>>]
List(items) == [none |-> FALSE, items |-> items]
\* The callbacks argument of a direct call of train().
CallbackArgs == {NoCallbacks, List(<<>>), List(<<"custom_callback">>)}

CommonInputs ==
    [ num_train_epochs : EpochInputs,
      gradient_accumulation_steps : GradAccInputs,
      packing : BOOLEAN,
      response_template : ResponseTemplates,
      dataset_text_field : TextFields,
      validation_data_path : ValidationPaths,
      trainer_controller_args : ControllerArgs ]

\* A run started from the command line: main() builds callbacks, tracker and
\* metadata itself.
MainInputs ==
    [ entry : {"main"},
      common : CommonInputs,
      exp_metadata : ExpMetadataInputs,
      tracker_callback : TrackerCallbacks,
      callbacks : {NoCallbacks},
      tracker : {"tracker"} ]

\* A direct call of train(): the caller supplies callbacks, tracker and the
\* already parsed exp_metadata.
DirectInputs ==
    [ entry : {"direct"},
      common : CommonInputs,
      exp_metadata : {None, ValidMetadata},
      tracker_callback : {None},
      callbacks : CallbackArgs,
      tracker : {None, "tracker"} ]

train_args == cfg.common
data_args == cfg.common
trainer_controller_args == cfg.common.trainer_controller_args

TokenNames == {"bos_token", "eos_token", "unk_token", "pad_token"}
NoTokens == [t \in TokenNames |-> None]

\* data_collator = None, and DataCollatorForCompletionOnlyLM(ids, ...).
NoCollator == [none |-> TRUE, response_template_ids |-> None]
\* DataCollatorForCompletionOnlyLM built without the template ids.
DataCollatorForCompletionOnlyLM_no_ids(ids) == [none |-> FALSE, response_template_ids |-> None]
DataCollatorForCompletionOnlyLM(ids) == [none |-> FALSE, response_template_ids |-> ids]

NoTrainer ==
    [ built |-> FALSE, packing |-> None, data_collator |-> NoCollator,
      dataset_text_field |-> None, callbacks |-> NoCallbacks,
      is_world_process_zero |-> FALSE ]

\* The logging variables while the job model runs, and the job variables
\* while the logging model runs.
LogIdle ==
    /\ zeroProc = 1
    /\ events = <<>>
    /\ pos = [p \in 1..NumProcs |-> 0]
    /\ logFile = <<>>
    /\ opens = <<>>

JobStart(c) ==
    /\ cfg = c
    /\ pc = IF c.entry = "main" THEN "main_callbacks" ELSE "validate"
    /\ error = None
    /\ loads = <<>>
    /\ callbacks = c.callbacks
    /\ metadata = IF c.entry = "main" THEN None ELSE c.exp_metadata
    /\ tokenizer = [loaded |-> FALSE, family |-> None, tokens |-> NoTokens]
    /\ special_tokens_dict = {}
    /\ resized = FALSE
    /\ response_template_ids = None
    /\ data_collator = NoCollator
    /\ packing = None
    /\ json_dataset = [loaded |-> FALSE, train |-> <<>>, validation |-> <<>>]
    /\ datasets = [train |-> <<>>, validation |-> <<>>, has_validation |-> FALSE]
    /\ trainer = NoTrainer
    /\ trackerCalls = <<>>
    /\ logged = <<>>

Init ==
    /\ \E c \in MainInputs \cup DirectInputs : JobStart(c)
    /\ LogIdle

\* ------------------------------------------------------------ main()
FileLoggerCallback == "file_logger_callback"
ControllerCallback == "tc_callback"

Fail(e) ==
    /\ pc' = "failed"
    /\ error' = e

\* json.loads on the command-line strings: an object gives a dict, an array
\* a list, null gives None, anything else raises JSONDecodeError (a
\* ValueError).
JsonLoads(s) ==
    CASE s = ValidMetadata -> [raises |-> FALSE, type |-> "dict", value |-> s]
      [] s = "[1, 2]" -> [raises |-> FALSE, type |-> "list", value |-> s]
      [] s = "null" -> [raises |-> FALSE, type |-> "NoneType", value |-> None]
      [] OTHER -> [raises |-> TRUE, type |-> None, value |-> None]

\* callbacks = [file_logger_callback], then the tracker's callback is appended
\* when the tracker has one.
InitialCallbacks(tracker_callback) ==
    IF tracker_callback # None
    THEN Append(<<FileLoggerCallback>>, tracker_callback)
    ELSE <<FileLoggerCallback>>

main_init_callbacks ==
    /\ pc = "main_callbacks"
    /\ callbacks' = List(InitialCallbacks(cfg.tracker_callback))
    /\ pc' = "main_metadata"
    /\ UNCHANGED <<cfg, error, loads, metadata, tokenizer, special_tokens_dict,
                   resized, response_template_ids, data_collator, packing,
                   json_dataset, datasets, trainer, trackerCalls, logged>>
    /\ UNCHANGED logVars

MetadataParseError == "failed while parsing extra metadata. pass a valid json"
MetadataNotDictWarning == "metadata cannot be converted to simple k:v dict ignoring"

\* parse_exp_metadata without the except clause: the parser's ValueError
\* leaves main().
parse_exp_metadata_uncaught(exp_metadata) ==
    IF exp_metadata = None
    THEN [uncaught |-> None, metadata |-> None, message |-> None]
    ELSE LET r == JsonLoads(exp_metadata) IN
         IF r.raises
         THEN [uncaught |-> "ValueError: JSONDecodeError", metadata |-> None,
               message |-> None]
         ELSE IF r.value = None \/ r.type # "dict"
         THEN [uncaught |-> None, metadata |-> None, message |-> MetadataNotDictWarning]
         ELSE [uncaught |-> None, metadata |-> r.value, message |-> None]

\* metadata = None; parse --exp_metadata when given; keep the result only
\* when it is a dict; a ValueError of the parser is caught and logged.
\* uncaught is the exception that leaves main(), message what is logged.
parse_exp_metadata(exp_metadata) ==
    IF exp_metadata = None
    THEN [uncaught |-> None, metadata |-> None, message |-> None]
    ELSE LET r == JsonLoads(exp_metadata) IN
         IF r.raises
         THEN [uncaught |-> None, metadata |-> None, message |-> MetadataParseError]
         ELSE IF r.value = None \/ r.type # "dict"
         THEN [uncaught |-> None, metadata |-> None, message |-> MetadataNotDictWarning]
         ELSE [uncaught |-> None, metadata |-> r.value, message |-> None]

\* The metadata block of main(), then the call of train().
main_parse_metadata ==
    /\ pc = "main_metadata"
    /\ LET r == parse_exp_metadata(cfg.exp_metadata) IN
         /\ metadata' = r.metadata
         /\ logged' = IF r.message # None THEN Append(logged, r.message) ELSE logged
         /\ IF r.uncaught # None
            THEN Fail(r.uncaught)
            ELSE /\ pc' = "validate"
                 /\ UNCHANGED error
    /\ UNCHANGED <<cfg, loads, callbacks, tokenizer, special_tokens_dict,
                   resized, response_template_ids, data_collator, packing,
                   json_dataset, datasets, trainer, trackerCalls>>
    /\ UNCHANGED logVars

\* ------------------------------------------------------------ train()
IsInstanceFloat(x) == x.type \in {"float", "nan"}
IsInstanceInt(x) == x.type = "int"
\* Python's x <= 0; every comparison with NaN is False.
LeqZero(x) == x.type # "nan" /\ x.val <= 0

EpochsError == "ValueError: num_train_epochs has to be an integer/float >= 1"
GradAccError == "ValueError: gradient_accumulation_steps has to be an integer >= 1"
TemplateError == "ValueError: Response template is None, needs to be set for training"
TextFieldError == "ValueError: Dataset_text_field is None, needs to be set for training"

train_validate ==
    /\ pc = "validate"
    /\ IF (~IsInstanceFloat(train_args.num_train_epochs))
            \/ LeqZero(train_args.num_train_epochs)
       THEN Fail(EpochsError)
       ELSE IF (~IsInstanceInt(train_args.gradient_accumulation_steps))
                 \/ LeqZero(train_args.gradient_accumulation_steps)
       THEN Fail(GradAccError)
       ELSE /\ pc' = "load_model"
            /\ UNCHANGED error
    /\ UNCHANGED <<cfg, loads, callbacks, metadata, tokenizer,
                   special_tokens_dict, resized, response_template_ids,
                   data_collator, packing, json_dataset, datasets, trainer,
                   trackerCalls, logged>>
    /\ UNCHANGED logVars

\* AutoModelForCausalLM.from_pretrained; its duration becomes the
\* additional metric model_load_time.
train_load_model ==
    /\ pc = "load_model"
    /\ loads' = Append(loads, "model")
    /\ pc' = "load_tokenizer"
    /\ UNCHANGED <<cfg, error, callbacks, metadata, tokenizer,
                   special_tokens_dict, resized, response_template_ids,
                   data_collator, packing, json_dataset, datasets, trainer,
                   trackerCalls, logged>>
    /\ UNCHANGED logVars

Families == {"llama", "gpt2", "other"}
\* The literal a pretrained tokenizer of the family carries for a token it has.
OwnToken(family, t) ==
    IF family = "gpt2" THEN "<|endoftext|>"
    ELSE CASE t = "bos_token" -> "<s>"
           [] t = "eos_token" -> "</s>"
           [] t = "unk_token" -> "<unk>"
           [] t = "pad_token" -> "<pad>"

\* AutoTokenizer.from_pretrained: a tokenizer of some family that has any
\* subset of the four special tokens.
train_load_tokenizer ==
    /\ pc = "load_tokenizer"
    /\ \E family \in Families, missing \in SUBSET TokenNames :
          tokenizer' = [ loaded |-> TRUE, family |-> family,
                         tokens |-> [t \in TokenNames |->
                                       IF t \in missing THEN None
                                       ELSE OwnToken(family, t)] ]
    /\ loads' = Append(loads, "tokenizer")
    /\ pc' = "add_family_tokens"
    /\ UNCHANGED <<cfg, error, callbacks, metadata, special_tokens_dict,
                   resized, response_template_ids, data_collator, packing,
                   json_dataset, datasets, trainer, trackerCalls, logged>>
    /\ UNCHANGED logVars

train_add_family_tokens ==
    /\ pc = "add_family_tokens"
    /\ tokenizer' =
          IF tokenizer.family = "llama"
          THEN [tokenizer EXCEPT !.tokens =
                  [ bos_token |-> "<s>", eos_token |-> "</s>",
                    unk_token |-> "<unk>", pad_token |-> "<pad>" ]]
          ELSE IF tokenizer.family = "gpt2"
          THEN [tokenizer EXCEPT !.tokens.pad_token = "<pad>"]
          ELSE tokenizer
    /\ pc' = "encode_template"
    /\ UNCHANGED <<cfg, error, loads, callbacks, metadata, special_tokens_dict,
                   resized, response_template_ids, data_collator, packing,
                   json_dataset, datasets, trainer, trackerCalls, logged>>
    /\ UNCHANGED logVars

\* What tokenizer.encode(None, add_special_tokens=False) raises: a fast
\* tokenizer a TypeError, a slow one a ValueError (use_fast=True takes the
\* fast one when the model has one).
EncodeNoneErrors ==
    { "TypeError: TextEncodeInput must be Union[TextInputSequence, Tuple[InputSequence, InputSequence]]",
      "ValueError: Input None is not valid. Should be a string, a list/tuple of strings or a list/tuple of integers." }

\* response_template_ids = tokenizer.encode(response_template, ...)[2:],
\* evaluated whatever the packing flag is.
train_encode_template ==
    /\ pc = "encode_template"
    /\ IF data_args.response_template = None
       THEN /\ \E e \in EncodeNoneErrors : Fail(e)
            /\ UNCHANGED response_template_ids
       ELSE /\ response_template_ids' = "encode(response_template)[2:]"
            /\ pc' = "detect_missing_tokens"
            /\ UNCHANGED error
    /\ UNCHANGED <<cfg, loads, callbacks, metadata, tokenizer,
                   special_tokens_dict, resized, data_collator, packing,
                   json_dataset, datasets, trainer, trackerCalls, logged>>
    /\ UNCHANGED logVars

\* MissingTokens with the check of unk_token testing bos_token again.
MissingTokens_unk_unchecked(tok) ==
    {t \in TokenNames \ {"unk_token"} : tok.tokens[t] = None}

\* The keys of special_tokens_dict: one for each of pad, eos, bos and unk
\* that is None on the tokenizer.
MissingTokens(tok) == {t \in TokenNames : tok.tokens[t] = None}

train_detect_missing_tokens ==
    /\ pc = "detect_missing_tokens"
    /\ special_tokens_dict' = MissingTokens(tokenizer)
    /\ pc' = "resize"
    /\ UNCHANGED <<cfg, error, loads, callbacks, metadata, tokenizer, resized,
                   response_template_ids, data_collator, packing, json_dataset,
                   datasets, trainer, trackerCalls, logged>>
    /\ UNCHANGED logVars

\* configs.DEFAULT_PAD_TOKEN and the other three defaults.
DefaultToken(t) ==
    CASE t = "pad_token" -> "<PAD>"
      [] t = "eos_token" -> "</s>"
      [] t = "bos_token" -> "<s>"
      [] t = "unk_token" -> "<unk>"

\* tokenizer_data_utils.tokenizer_and_embedding_resize: adds the tokens of
\* special_tokens_dict to the tokenizer and resizes the model's embeddings.
tokenizer_and_embedding_resize(dict, tok) ==
    [tok EXCEPT !.tokens = [t \in TokenNames |->
        IF t \in dict THEN DefaultToken(t) ELSE tok.tokens[t]]]

train_resize ==
    /\ pc = "resize"
    /\ tokenizer' = tokenizer_and_embedding_resize(special_tokens_dict, tokenizer)
    /\ resized' = TRUE
    /\ pc' = "collator_first"
    /\ UNCHANGED <<cfg, error, loads, callbacks, metadata, special_tokens_dict,
                   response_template_ids, data_collator, packing, json_dataset,
                   datasets, trainer, trackerCalls, logged>>
    /\ UNCHANGED logVars

\* train without the first evaluation of the packing / collator decision.
train_collator_first_skipped ==
    /\ pc = "collator_first"
    /\ pc' = "load_dataset"
    /\ UNCHANGED <<cfg, error, loads, callbacks, metadata, tokenizer,
                   special_tokens_dict, resized, response_template_ids,
                   data_collator, packing, json_dataset, datasets, trainer,
                   trackerCalls, logged>>
    /\ UNCHANGED logVars

\* The first evaluation without its two checks.
train_collator_first_unchecked ==
    /\ pc = "collator_first"
    /\ IF train_args.packing
       THEN /\ data_collator' = NoCollator
            /\ packing' = "True"
       ELSE /\ data_collator' = DataCollatorForCompletionOnlyLM(response_template_ids)
            /\ packing' = "False"
    /\ pc' = "load_dataset"
    /\ UNCHANGED <<cfg, error, loads, callbacks, metadata, tokenizer,
                   special_tokens_dict, resized, response_template_ids,
                   json_dataset, datasets, trainer, trackerCalls, logged>>
    /\ UNCHANGED logVars

\* First evaluation of the packing / collator decision.
train_collator_first ==
    /\ pc = "collator_first"
    /\ IF train_args.packing
       THEN /\ data_collator' = NoCollator
            /\ packing' = "True"
            /\ pc' = "load_dataset"
            /\ UNCHANGED error
       ELSE IF data_args.response_template = None
       THEN /\ Fail(TemplateError)
            /\ UNCHANGED <<data_collator, packing>>
       ELSE IF data_args.dataset_text_field = None
       THEN /\ Fail(TextFieldError)
            /\ UNCHANGED <<data_collator, packing>>
       ELSE /\ data_collator' = DataCollatorForCompletionOnlyLM(response_template_ids)
            /\ packing' = "False"
            /\ pc' = "load_dataset"
            /\ UNCHANGED error
    /\ UNCHANGED <<cfg, loads, callbacks, metadata, tokenizer,
                   special_tokens_dict, resized, response_template_ids,
                   json_dataset, datasets, trainer, trackerCalls, logged>>
    /\ UNCHANGED logVars

\* A record of a JSON-lines dataset: a value for each column.
Columns == {"input", "output"}
RawTexts == { <<"hello">>, <<"hello", "</s>">> }
RawRecords == { [c \in Columns |-> IF c = "input" THEN <<"question">> ELSE t] :
                t \in RawTexts }
RawDatasets == UNION { [1..n -> RawRecords] : n \in 1..MaxRecords }

\* The key of the f-string f"{data_args.dataset_text_field}": str(None) is
\* the text "None".
FieldKey(field) == field

\* format_dataset returning the text without the marker.
format_dataset_no_eos(example, field, eos_token) == example

\* format_dataset appending the marker only to a text that does not end
\* with it.
format_dataset_unless_present(example, field, eos_token) ==
    LET text == example[FieldKey(field)] IN
    IF text # <<>> /\ text[Len(text)] = eos_token
    THEN example
    ELSE [example EXCEPT ![FieldKey(field)] = text \o <<eos_token>>]

\* format_dataset followed by Dataset.map's merge of the returned dict into
\* the example.
format_dataset(example, field, eos_token) ==
    [example EXCEPT ![FieldKey(field)] = example[FieldKey(field)] \o <<eos_token>>]

MapFormat(ds, field, eos_token) ==
    [i \in 1..Len(ds) |-> format_dataset(ds[i], field, eos_token)]

\* datasets.load_dataset, then map(format_dataset) over the train split and
\* over the validation split when a validation path is given.
train_load_and_format ==
    /\ pc = "load_dataset"
    /\ loads' = Append(loads, "dataset")
    /\ \E tr \in RawDatasets,
          va \in IF data_args.validation_data_path # None
                 THEN RawDatasets ELSE {<<>>} :
          /\ json_dataset' = [loaded |-> TRUE, train |-> tr, validation |-> va]
          /\ IF FieldKey(data_args.dataset_text_field) \notin Columns
             THEN /\ Fail("KeyError: 'None'")
                  /\ UNCHANGED datasets
             ELSE /\ datasets' =
                       [ train |-> MapFormat(tr, data_args.dataset_text_field,
                                             tokenizer.tokens.eos_token),
                         validation |-> MapFormat(va, data_args.dataset_text_field,
                                                  tokenizer.tokens.eos_token),
                         has_validation |-> data_args.validation_data_path # None ]
                  /\ pc' = "controller_callback"
                  /\ UNCHANGED error
    /\ UNCHANGED <<cfg, callbacks, metadata, tokenizer, special_tokens_dict,
                   resized, response_template_ids, data_collator, packing,
                   trainer, trackerCalls, logged>>
    /\ UNCHANGED logVars

\* AppendController inserting the controller right after the first callback.
AppendController_second(items) ==
    IF items = <<>> THEN <<ControllerCallback>>
    ELSE <<Head(items), ControllerCallback>> \o Tail(items)

\* AppendController putting the controller at the front of the list.
AppendController_front(items) == <<ControllerCallback>> \o items

\* callbacks.append(tc_callback)
AppendController(items) == Append(items, ControllerCallback)

\* The controller callback is appended when a controller config file is
\* given; None has no append.
train_controller_callback ==
    /\ pc = "controller_callback"
    /\ IF (~trainer_controller_args.none)
            /\ trainer_controller_args.trainer_controller_config_file # None
       THEN IF callbacks.none
            THEN /\ Fail("AttributeError: 'NoneType' object has no attribute 'append'")
                 /\ UNCHANGED callbacks
            ELSE /\ callbacks' = List(AppendController(callbacks.items))
                 /\ pc' = "collator_second"
                 /\ UNCHANGED error
       ELSE /\ pc' = "collator_second"
            /\ UNCHANGED <<callbacks, error>>
    /\ UNCHANGED <<cfg, loads, metadata, tokenizer, special_tokens_dict,
                   resized, response_template_ids, data_collator, packing,
                   json_dataset, datasets, trainer, trackerCalls, logged>>
    /\ UNCHANGED logVars

\* A second evaluation that selects packing whatever the flag is.
train_collator_second_packing_only ==
    /\ pc = "collator_second"
    /\ data_collator' = NoCollator
    /\ packing' = "True"
    /\ pc' = "construct_trainer"
    /\ UNCHANGED <<cfg, error, logged, loads, callbacks, metadata, tokenizer,
                   special_tokens_dict, resized, response_template_ids,
                   json_dataset, datasets, trainer, trackerCalls>>
    /\ UNCHANGED logVars

\* Second evaluation of the packing / collator decision: logs and
\* sys.exit(-1) where the first one raises, and leaves `packing` alone in
\* the else branch.
train_collator_second ==
    /\ pc = "collator_second"
    /\ IF train_args.packing
       THEN /\ data_collator' = NoCollator
            /\ packing' = "True"
            /\ pc' = "construct_trainer"
            /\ UNCHANGED <<error, logged>>
       ELSE IF data_args.response_template = None
       THEN /\ logged' = Append(logged,
                   "Error, response template is None, needs to be set for training")
            /\ pc' = "exited"
            /\ error' = "SystemExit: -1"
            /\ UNCHANGED <<data_collator, packing>>
       ELSE IF data_args.dataset_text_field = None
       THEN /\ logged' = Append(logged,
                   "Error, dataset_text_field is None, needs to be set for training")
            /\ pc' = "exited"
            /\ error' = "SystemExit: -1"
            /\ UNCHANGED <<data_collator, packing>>
       ELSE /\ data_collator' = DataCollatorForCompletionOnlyLM(response_template_ids)
            /\ pc' = "construct_trainer"
            /\ UNCHANGED <<error, logged, packing>>
    /\ UNCHANGED <<cfg, loads, callbacks, metadata, tokenizer,
                   special_tokens_dict, resized, response_template_ids,
                   json_dataset, datasets, trainer, trackerCalls>>
    /\ UNCHANGED logVars

\* SFTTrainer(...); whether this process is world process zero is the
\* trainer's answer to is_world_process_zero().
train_construct_trainer ==
    /\ pc = "construct_trainer"
    /\ \E zero \in BOOLEAN :
          trainer' = [ built |-> TRUE, packing |-> packing,
                       data_collator |-> data_collator,
                       dataset_text_field |-> data_args.dataset_text_field,
                       callbacks |-> callbacks,
                       is_world_process_zero |-> zero ]
    /\ pc' = "track_metadata"
    /\ UNCHANGED <<cfg, error, loads, callbacks, metadata, tokenizer,
                   special_tokens_dict, resized, response_template_ids,
                   data_collator, packing, json_dataset, datasets,
                   trackerCalls, logged>>
    /\ UNCHANGED logVars

TrackCall(raised) ==
    [ method |-> "track", name |-> "model_load_time",
      arg |-> "additional_metrics", raised |-> raised ]
SetParamsCall(raised) ==
    [ method |-> "set_params", name |-> "experiment_metadata",
      arg |-> metadata, raised |-> raised ]
TrackingError == "Exception while saving additional metrics and metadata"

\* The calls made inside the try block and the exception that ends it, for
\* each way the tracker may answer: both calls return, track raises a
\* ValueError, set_params raises a ValueError.
TrackingOutcomes ==
    { [calls |-> <<TrackCall(FALSE), SetParamsCall(FALSE)>>, raised |-> None],
      [calls |-> <<TrackCall(TRUE)>>, raised |-> "ValueError"],
      [calls |-> <<TrackCall(FALSE), SetParamsCall(TRUE)>>, raised |-> "ValueError"] }

\* TracksHere without the world-process-zero check.
TracksHere_every_process(tracker, tr) == tracker # None

\* if tracker is not None: if trainer.is_world_process_zero():
TracksHere(tracker, tr) == tracker # None /\ tr.is_world_process_zero

\* CaughtByTrain with the except clause catching nothing.
CaughtByTrain_nothing(exception) == FALSE

\* except ValueError as e:
CaughtByTrain(exception) == exception = "ValueError"

\* Only with a tracker and on world process zero: track every additional
\* metric, then set_params; a ValueError is caught and logged.
train_track_metadata ==
    /\ pc = "track_metadata"
    /\ IF TracksHere(cfg.tracker, trainer)
       THEN \E o \in TrackingOutcomes :
               /\ trackerCalls' = trackerCalls \o o.calls
               /\ IF o.raised = None
                  THEN /\ pc' = "start_training"
                       /\ UNCHANGED <<error, logged>>
                  ELSE IF CaughtByTrain(o.raised)
                  THEN /\ logged' = Append(logged, TrackingError)
                       /\ pc' = "start_training"
                       /\ UNCHANGED error
                  ELSE /\ Fail(o.raised)
                       /\ UNCHANGED logged
       ELSE /\ pc' = "start_training"
            /\ UNCHANGED <<trackerCalls, logged, error>>
    /\ UNCHANGED <<cfg, loads, callbacks, metadata, tokenizer,
                   special_tokens_dict, resized, response_template_ids,
                   data_collator, packing, json_dataset, datasets, trainer>>
    /\ UNCHANGED logVars

\* The FSDP auto-wrap policy is set when needed, then trainer.train() starts.
train_start_training ==
    /\ pc = "start_training"
    /\ pc' = "training"
    /\ UNCHANGED <<cfg, error, loads, callbacks, metadata, tokenizer,
                   special_tokens_dict, resized, response_template_ids,
                   data_collator, packing, json_dataset, datasets, trainer,
                   trackerCalls, logged>>
    /\ UNCHANGED logVars

\* trainer.train() returns and so does train().
train_return ==
    /\ pc = "training"
    /\ pc' = "done"
    /\ UNCHANGED <<cfg, error, loads, callbacks, metadata, tokenizer,
                   special_tokens_dict, resized, response_template_ids,
                   data_collator, packing, json_dataset, datasets, trainer,
                   trackerCalls, logged>>
    /\ UNCHANGED logVars

Next ==
    \/ main_init_callbacks
    \/ main_parse_metadata
    \/ train_validate
    \/ train_load_model
    \/ train_load_tokenizer
    \/ train_add_family_tokens
    \/ train_encode_template
    \/ train_detect_missing_tokens
    \/ train_resize
    \/ train_collator_first
    \/ train_load_and_format
    \/ train_controller_callback
    \/ train_collator_second
    \/ train_construct_trainer
    \/ train_track_metadata
    \/ train_start_training
    \/ train_return

Spec == Init /\ [][Next]_vars

\* ------------------------------------------------- FileLoggingCallback
Procs == 1..NumProcs

\* The `logs` argument of on_log: None, or a dict with any of the keys
\* loss, eval_loss and epoch. loss and eval_loss are in millionths, epoch
\* is in thousandths (1004 is 1.004).
LogKeys == {"loss", "eval_loss", "epoch"}
EpochValues == {1004, 1006, 125}
LossValues == {523456}
EvalLossValues == {700000}
NoLogs == [none |-> TRUE, keys |-> {}, loss |-> 0, eval_loss |-> 0, epoch |-> 0]
LogDicts ==
    { [ none |-> FALSE, keys |-> ks, loss |-> l, eval_loss |-> v, epoch |-> e ] :
      ks \in SUBSET LogKeys, l \in LossValues \cup {0},
      v \in EvalLossValues \cup {0}, e \in EpochValues \cup {0} }
\* A key that is absent has the value 0 in the record.
LogEvents ==
    {NoLogs} \cup { d \in LogDicts : /\ (d.loss = 0) <=> ("loss" \notin d.keys)
                                     /\ (d.eval_loss = 0) <=> ("eval_loss" \notin d.keys)
                                     /\ (d.epoch = 0) <=> ("epoch" \notin d.keys) }

\* state.global_step when the i-th log event is emitted (logging every 10
\* steps).
GlobalStep(i) == 10 * i

\* Python's round(x, 2) of a number given in thousandths, in hundredths:
\* to nearest, a tie to the even neighbour (the ties of the inputs are
\* multiples of 1/8 and so exact in binary).
Round2(k) ==
    LET q == k \div 10
        r == k % 10
    IN  IF r < 5 THEN q
        ELSE IF r > 5 THEN q + 1
        ELSE IF q % 2 = 0 THEN q ELSE q + 1

\* _track_loss: the file after the call. A missing key (KeyError) returns
\* before the file is opened; otherwise one line is appended.
KeyMissing(loss_key, logs) == "epoch" \notin logs.keys \/ loss_key \notin logs.keys

LogLine(loss_key, log_name, logs, global_step) ==
    [ name |-> log_name,
      data |-> [ epoch |-> Round2(logs.epoch),
                 step |-> global_step,
                 value |-> logs[loss_key],
                 timestamp |-> "datetime.now()" ] ]

\* AppendLine with the file opened in mode "w".
AppendLine_truncating(file, line) == <<line>>

\* open(log_file, "a") followed by one write.
AppendLine(file, line) == Append(file, line)

track_loss(loss_key, log_name, file, logs, global_step) ==
    IF KeyMissing(loss_key, logs)
    THEN [opened |-> FALSE, file |-> file]
    ELSE [opened |-> TRUE,
          file |-> AppendLine(file, LogLine(loss_key, log_name, logs, global_step))]

\* is_world_process_zero answering as is_local_process_zero does: true on
\* the first process of every node (the last participant starts a second
\* node).
is_world_process_zero_local(p) == p = zeroProc \/ p = NumProcs

is_world_process_zero(p) == p = zeroProc

\* on_log without the check of state.is_world_process_zero.
on_log_result_every_process(p, file, logs, global_step) ==
    IF (~logs.none) /\ "loss" \in logs.keys /\ "epoch" \in logs.keys
    THEN track_loss("loss", "training_loss", file, logs, global_step)
    ELSE IF (~logs.none) /\ "eval_loss" \in logs.keys /\ "epoch" \in logs.keys
    THEN track_loss("eval_loss", "validation_loss", file, logs, global_step)
    ELSE [opened |-> FALSE, file |-> file]

\* on_log with `if` where the code has `elif`: an event with both losses
\* is tracked twice.
on_log_result_two_ifs(p, file, logs, global_step) ==
    IF ~is_world_process_zero(p)
    THEN [opened |-> FALSE, file |-> file]
    ELSE LET first ==
                 IF (~logs.none) /\ "loss" \in logs.keys /\ "epoch" \in logs.keys
                 THEN track_loss("loss", "training_loss", file, logs, global_step)
                 ELSE [opened |-> FALSE, file |-> file]
         IN  IF (~logs.none) /\ "eval_loss" \in logs.keys /\ "epoch" \in logs.keys
             THEN track_loss("eval_loss", "validation_loss", first.file, logs,
                             global_step)
             ELSE first

\* on_log as called on participant p with logs and the trainer state.
on_log_result(p, file, logs, global_step) ==
    IF ~is_world_process_zero(p)
    THEN [opened |-> FALSE, file |-> file]
    ELSE IF (~logs.none) /\ "loss" \in logs.keys /\ "epoch" \in logs.keys
    THEN track_loss("loss", "training_loss", file, logs, global_step)
    ELSE IF (~logs.none) /\ "eval_loss" \in logs.keys /\ "epoch" \in logs.keys
    THEN track_loss("eval_loss", "validation_loss", file, logs, global_step)
    ELSE [opened |-> FALSE, file |-> file]

\* The trainer emits a log event, which every participant will receive.
trainer_log ==
    /\ Len(events) < MaxEvents
    /\ \E logs \in LogEvents : events' = Append(events, logs)
    /\ UNCHANGED <<zeroProc, pos, logFile, opens>>
    /\ UNCHANGED jobVars

\* Participant p handles its next log event.
on_log(p) ==
    /\ pos[p] < Len(events)
    /\ LET i == pos[p] + 1
           r == on_log_result(p, logFile, events[i], GlobalStep(i))
       IN  /\ logFile' = r.file
           /\ opens' = IF r.opened THEN Append(opens, p) ELSE opens
           /\ pos' = [pos EXCEPT ![p] = i]
    /\ UNCHANGED <<zeroProc, events>>
    /\ UNCHANGED jobVars

\* The configuration of the run whose trainer drives the callback.
LoggingRun ==
    [ entry |-> "direct",
      common |-> [ num_train_epochs |-> PyFloat(10),
                   gradient_accumulation_steps |-> PyInt(10),
                   packing |-> FALSE,
                   response_template |-> "\n### Response:",
                   dataset_text_field |-> "output",
                   validation_data_path |-> None,
                   trainer_controller_args |->
                       [none |-> TRUE, trainer_controller_config_file |-> None] ],
      exp_metadata |-> None,
      tracker_callback |-> None,
      callbacks |-> List(<<FileLoggerCallback>>),
      tracker |-> None ]

InitLog ==
    /\ JobStart(LoggingRun)
    /\ zeroProc \in Procs
    /\ events = <<>>
    /\ pos = [p \in Procs |-> 0]
    /\ logFile = <<>>
    /\ opens = <<>>

NextLog ==
    \/ trainer_log
    \/ \E p \in Procs : on_log(p)

SpecLog == InitLog /\ [][NextLog]_vars

\* ================================================================ claims
\* The words of the claims.
IsFloatGreaterThanZero(x) == x.type = "float" /\ x.val > 0
IsIntGreaterThanZero(x) == x.type = "int" /\ x.val > 0
ValidNumbers ==
    /\ IsFloatGreaterThanZero(train_args.num_train_epochs)
    /\ IsIntGreaterThanZero(train_args.gradient_accumulation_steps)
ControllerFileSupplied ==
    /\ ~trainer_controller_args.none
    /\ trainer_controller_args.trainer_controller_config_file # None
\* A caller's callbacks list that can take the controller callback.
ValidCallbacks == ~(ControllerFileSupplied /\ cfg.callbacks.none /\ cfg.entry = "direct")
ConfigurationErrors == {EpochsError, GradAccError, TemplateError, TextFieldError}
InMain == pc \in {"main_callbacks", "main_metadata"}
Ended == pc \in {"failed", "exited", "done"}
Aborted == pc \in {"failed", "exited"}

\* C1: whenever the epoch count is not a float greater than 0 or the
\* gradient-accumulation step count is not an integer greater than 0,
\* train fails with the configuration error of the validation and no load
\* call has been made.
C1_InvalidNumbersFailBeforeLoading ==
    ( /\ ~ValidNumbers
      /\ ~InMain
      /\ pc # "validate" )
    => /\ pc = "failed"
       /\ error \in {EpochsError, GradAccError}
       /\ loads = <<>>

\* C1 for the numbers the validation does reject: every epoch count that
\* is not a float, or is a float <= 0, and every step count that is not an
\* int, or is an int <= 0, fails before any load.
C1_RejectedNumbersFailBeforeLoading ==
    ( /\ ~ValidNumbers
      /\ train_args.num_train_epochs # NaN
      /\ ~InMain
      /\ pc # "validate" )
    => /\ pc = "failed"
       /\ error \in {EpochsError, GradAccError}
       /\ loads = <<>>

\* C2: with packing off and a null response template or a null dataset
\* text field, in an otherwise valid configuration, the trainer is never
\* constructed, training never starts, and a run that has ended has ended
\* with a configuration error.
C2_MissingTemplateOrFieldIsConfigurationError ==
    ( /\ ValidNumbers
      /\ ValidCallbacks
      /\ ~train_args.packing
      /\ (data_args.response_template = None \/ data_args.dataset_text_field = None) )
    => /\ ~trainer.built
       /\ pc \notin {"training", "done"}
       /\ (Ended => error \in ConfigurationErrors)

\* C3: with packing on and a null response template, in an otherwise valid
\* configuration, no step of the run fails.
C3_PackingNeverRequiresTemplate ==
    ( /\ ValidNumbers
      /\ ValidCallbacks
      /\ train_args.packing
      /\ data_args.response_template = None
      /\ data_args.dataset_text_field # None )
    => ~Aborted

\* ----------------------------------------------------------------------
Qualifies(logs) ==
    /\ ~logs.none
    /\ "epoch" \in logs.keys
    /\ ("loss" \in logs.keys \/ "eval_loss" \in logs.keys)
IsPrefix(a, b) == Len(a) <= Len(b) /\ SubSeq(b, 1, Len(a)) = a
Abs(n) == IF n < 0 THEN -n ELSE n

\* C4: a step in which a participant that is not world process zero
\* handles a log event, whatever the event, leaves the log file as it was
\* and does not open it.
C4_NonZeroProcessNeverWrites ==
    [][ \A p \in Procs :
          (p # zeroProc /\ pos'[p] # pos[p])
          => (logFile' = logFile /\ opens' = opens) ]_vars

C4_Witness ==
    \E p \in Procs :
        /\ p # zeroProc
        /\ pos[p] = 2
        /\ pos[zeroProc] = 0
        /\ events[1].keys = {"loss", "epoch"}
        /\ events[2].keys = {"eval_loss", "epoch"}
        /\ logFile = <<>>
        /\ opens = <<>>

\* C5: a step in which world process zero handles a log event appends
\* exactly one record when the event holds epoch together with loss or
\* eval_loss, and leaves the file alone otherwise. The record is named
\* training_loss when the event holds loss (also when it holds eval_loss
\* too) and validation_loss otherwise, its value is that loss, its step is
\* the global step and its epoch is the multiple of 0.01 nearest to the
\* event's epoch.
C5_OneRecordPerQualifyingEvent ==
    [][ pos'[zeroProc] # pos[zeroProc]
        => LET i == pos'[zeroProc]
               logs == events[i]
           IN  IF Qualifies(logs)
               THEN /\ Len(logFile') = Len(logFile) + 1
                    /\ IsPrefix(logFile, logFile')
                    /\ LET line == logFile'[Len(logFile')] IN
                         /\ line.name = IF "loss" \in logs.keys
                                        THEN "training_loss" ELSE "validation_loss"
                         /\ line.data.value = IF "loss" \in logs.keys
                                              THEN logs.loss ELSE logs.eval_loss
                         /\ line.data.step = GlobalStep(i)
                         /\ Abs(10 * line.data.epoch - logs.epoch) <= 5
               ELSE /\ logFile' = logFile
                    /\ opens' = opens ]_vars

C5_Witness ==
    /\ pos[zeroProc] = 2
    /\ events[1].keys = LogKeys
    /\ events[2].keys = {"loss"}
    /\ Len(logFile) = 1
    /\ logFile[1].name = "training_loss"

\* C6: every step leaves the previous content of the log file as a prefix
\* of the new content.
C6_LogFileAppendOnly == [][IsPrefix(logFile, logFile')]_vars

C6_Witness ==
    /\ Len(logFile) = 2
    /\ logFile[1].name = "validation_loss"
    /\ logFile[2].name = "training_loss"

\* ----------------------------------------------------------------------
Optional(present, x) == IF present THEN <<x>> ELSE <<>>

\* C7 as stated: the trainer of a run started by main() receives the
\* file-logging callback, then the controller callback when a controller
\* config file is supplied, then the tracker's callback when there is one.
C7_ControllerBeforeTracker ==
    (trainer.built /\ cfg.entry = "main")
    => trainer.callbacks.items =
          <<FileLoggerCallback>>
          \o Optional(ControllerFileSupplied, ControllerCallback)
          \o Optional(cfg.tracker_callback # None, cfg.tracker_callback)

\* C7 as amended: the trainer of a run started by main() receives the
\* file-logging callback, then the tracker's callback when there is one,
\* then the controller callback when a controller config file is supplied.
C7_TrackerBeforeController ==
    (trainer.built /\ cfg.entry = "main")
    => /\ ~trainer.callbacks.none
       /\ trainer.callbacks.items =
             <<FileLoggerCallback>>
             \o Optional(cfg.tracker_callback # None, cfg.tracker_callback)
             \o Optional(ControllerFileSupplied, ControllerCallback)

C7_Witness ==
    /\ trainer.built
    /\ cfg.entry = "main"
    /\ ControllerFileSupplied
    /\ cfg.tracker_callback # None
    /\ Len(trainer.callbacks.items) = 3

\* C8: every step that calls the tracker is taken by world process zero,
\* after the trainer has been constructed and before training has started,
\* and the calls it makes are track of the model-load-time metric and
\* set_params of the experiment metadata.
C8_TrackingOnlyOnProcessZeroAfterConstruction ==
    [][ trackerCalls' # trackerCalls
        => /\ trainer.built
           /\ trainer.is_world_process_zero
           /\ pc \notin {"training", "done"}
           /\ pc' \notin {"training", "done"}
           /\ IsPrefix(trackerCalls, trackerCalls')
           /\ \A i \in (Len(trackerCalls) + 1)..Len(trackerCalls') :
                 \/ /\ trackerCalls'[i].method = "track"
                    /\ trackerCalls'[i].name = "model_load_time"
                 \/ /\ trackerCalls'[i].method = "set_params"
                    /\ trackerCalls'[i].arg = metadata ]_vars

C8_Witness ==
    /\ trainer.built
    /\ trainer.is_world_process_zero
    /\ Len(trackerCalls) = 2
    /\ trackerCalls[2].method = "set_params"
    /\ pc = "training"

NotAMap(s) == s \in {"{not json", "[1, 2]", "null"}
RaisedByTrain ==
    ConfigurationErrors \cup EncodeNoneErrors
    \cup { "KeyError: 'None'",
           "AttributeError: 'NoneType' object has no attribute 'append'",
           "SystemExit: -1" }
C10_BadMetadataIsDropped ==
    (cfg.entry = "main" /\ NotAMap(cfg.exp_metadata))
    => /\ (~InMain => metadata = None)
       /\ (error # None => error \in RaisedByTrain)
       /\ ( ( /\ ValidNumbers
              /\ data_args.response_template # None
              /\ data_args.dataset_text_field # None )
            => /\ ~Aborted
               /\ (pc # "done" => ENABLED Next) )

C10_Witness ==
    /\ cfg.entry = "main"
    /\ cfg.exp_metadata = "{not json"
    /\ metadata = None
    /\ pc = "training"

\* ----------------------------------------------------------------------
\* C11: once the resize routine has returned, bos, eos, unk and pad are all
\* non-null on the tokenizer, and the defaults handed to the routine are
\* those of exactly the tokens that were null when the missing tokens were
\* detected, which get their default literal, the others keeping theirs.
C11_AllFourTokensAfterNormalization ==
    /\ (pc = "resize"
        => special_tokens_dict = {t \in TokenNames : tokenizer.tokens[t] = None})
    /\ (resized
        => /\ \A t \in TokenNames : tokenizer.tokens[t] # None
           /\ \A t \in special_tokens_dict : tokenizer.tokens[t] = DefaultToken(t))

C11_Witness ==
    /\ resized
    /\ tokenizer.family = "other"
    /\ special_tokens_dict = TokenNames
    /\ \A t \in TokenNames : tokenizer.tokens[t] # None

\* C12: once the datasets are formatted, the training split, and the
\* validation split when a validation path is given, have as many records
\* as loaded, and each record has its text field equal to the loaded value
\* followed by the tokenizer's eos token and every other field as loaded.
FormattedFrom(raw, formatted) ==
    /\ Len(formatted) = Len(raw)
    /\ \A i \in 1..Len(raw) :
          /\ DOMAIN formatted[i] = DOMAIN raw[i]
          /\ \A c \in DOMAIN raw[i] :
                formatted[i][c] =
                   IF c = data_args.dataset_text_field
                   THEN raw[i][c] \o <<tokenizer.tokens.eos_token>>
                   ELSE raw[i][c]
Formatted == json_dataset.loaded /\ pc # "failed"

C12_TextFieldGetsEosOthersUnchanged ==
    Formatted
    => /\ FormattedFrom(json_dataset.train, datasets.train)
       /\ FormattedFrom(json_dataset.validation, datasets.validation)
       /\ datasets.has_validation = (data_args.validation_data_path # None)
       /\ (datasets.has_validation => Len(datasets.validation) >= 1)

C12_Witness ==
    /\ Formatted
    /\ datasets.has_validation
    /\ Len(datasets.train) >= 1
    /\ Len(datasets.validation) >= 1
    /\ datasets.train[1]["input"] = <<"question">>

\* The number of consecutive occurrences of the marker at the end of a text.
RECURSIVE TrailingMarkers(_, _)
TrailingMarkers(text, marker) ==
    IF text = <<>> \/ text[Len(text)] # marker THEN 0
    ELSE 1 + TrailingMarkers(SubSeq(text, 1, Len(text) - 1), marker)

FormattedTexts ==
    { datasets.train[i][data_args.dataset_text_field] : i \in 1..Len(datasets.train) }
    \cup { datasets.validation[i][data_args.dataset_text_field] :
           i \in 1..Len(datasets.validation) }

\* C13 as stated: every formatted text ends with the eos marker exactly
\* once, also when the loaded text already ended with it.
C13_EndsWithEosExactlyOnce ==
    Formatted
    => \A text \in FormattedTexts :
          TrailingMarkers(text, tokenizer.tokens.eos_token) = 1

\* C13 as amended: every formatted text ends with exactly one eos marker
\* more than the loaded text did: exactly once when the loaded text did not
\* end with the marker, twice when it ended with it once.
TrailingGrowsByOne(raw, formatted) ==
    \A i \in 1..Len(raw) :
        TrailingMarkers(formatted[i][data_args.dataset_text_field],
                        tokenizer.tokens.eos_token)
        = 1 + TrailingMarkers(raw[i][data_args.dataset_text_field],
                              tokenizer.tokens.eos_token)

C13_OneMoreEosThanLoaded ==
    Formatted
    => /\ Len(datasets.train) = Len(json_dataset.train)
       /\ Len(datasets.validation) = Len(json_dataset.validation)
       /\ TrailingGrowsByOne(json_dataset.train, datasets.train)
       /\ TrailingGrowsByOne(json_dataset.validation, datasets.validation)

C13_Witness ==
    /\ Formatted
    /\ tokenizer.tokens.eos_token = "</s>"
    /\ json_dataset.train[1]["output"] = <<"hello", "</s>">>
    /\ datasets.train[1]["output"] = <<"hello", "</s>", "</s>">>

\* ----------------------------------------------------------------------
\* The events, among the first n emitted, that hold epoch with a loss.
QualifyingIndexes(n) == {i \in 1..n : Qualifies(events[i])}

\* C14: with all participants handling the same events in any interleaving,
\* only world process zero has opened the file, once per line, and the
\* file holds exactly one line for each qualifying event that world process
\* zero has handled, in the order of the events, none of them twice.
C14_SingleWriterOneLinePerEvent ==
    /\ \A k \in 1..Len(opens) : opens[k] = zeroProc
    /\ Len(opens) = Len(logFile)
    /\ Len(logFile) = Cardinality(QualifyingIndexes(pos[zeroProc]))
    /\ \A k \in 1..Len(logFile) :
          \E i \in QualifyingIndexes(pos[zeroProc]) :
             /\ logFile[k].data.step = GlobalStep(i)
             /\ logFile[k].data.value \in {events[i].loss, events[i].eval_loss}
    /\ \A j, k \in 1..Len(logFile) :
          j < k => logFile[j].data.step < logFile[k].data.step

C14_Witness ==
    /\ Len(events) >= 2
    /\ \A p \in Procs : pos[p] = Len(events)
    /\ \A i \in 1..Len(events) : Qualifies(events[i])
    /\ Len(logFile) = Len(events)
    /\ zeroProc # NumProcs

\* ------------------------------------------------------------ C15
\* The stage a program position belongs to, numbered in the order the code
\* of train runs them: main()'s preparation, Validating, Loading,
\* Normalizing (family tokens, template ids, missing tokens, resize), the
\* first evaluation of Collating, Formatting, CallbackAssembly (the
\* controller callback), the second evaluation of Collating,
\* TrainerConstruction, MetadataTracking, Training, Done.
StageIndex(label) ==
    CASE label \in {"main_callbacks", "main_metadata"} -> 0
      [] label = "validate" -> 1
      [] label \in {"load_model", "load_tokenizer"} -> 2
      [] label \in {"add_family_tokens", "encode_template",
                    "detect_missing_tokens", "resize"} -> 3
      [] label = "collator_first" -> 4
      [] label = "load_dataset" -> 5
      [] label = "controller_callback" -> 6
      [] label = "collator_second" -> 7
      [] label = "construct_trainer" -> 8
      [] label = "track_metadata" -> 9
      [] label \in {"start_training", "training"} -> 10
      [] label = "done" -> 11
      [] OTHER -> 12
ControllerAdded ==
    /\ ~callbacks.none
    /\ \E i \in 1..Len(callbacks.items) : callbacks.items[i] = ControllerCallback
PolicySelected == packing # None
ModelAndTokenizerLoaded == Len(loads) >= 2 /\ loads[1] = "model" /\ loads[2] = "tokenizer"

\* C15 as stated: the stages run in the order Validating, Loading,
\* Normalizing, Formatting, Collating, CallbackAssembly, TrainerConstruction,
\* MetadataTracking, Training, Done, none starting before its predecessor
\* has completed: the collation policy is selected, and its precondition
\* checked, only once the dataset is formatted, the controller callback is
\* added only once the policy is selected, and a run ends only at Done or
\* at a validation failure.
C15_StagesInSpecOrder ==
    /\ resized => ModelAndTokenizerLoaded
    /\ json_dataset.loaded => resized
    /\ PolicySelected => json_dataset.loaded
    /\ (pc = "failed" /\ error \in {TemplateError, TextFieldError})
          => json_dataset.loaded
    /\ ControllerAdded => PolicySelected
    /\ trainer.built => (PolicySelected /\ (ControllerFileSupplied => ControllerAdded))
    /\ trackerCalls # <<>> => trainer.built
    /\ pc \in {"start_training", "training", "done"} => trainer.built
    /\ Ended => (pc = "done" \/ error \in ConfigurationErrors)

\* The failures that end a run, each with the position it is raised at.
FailsAt(label, e) ==
    \/ label = "validate" /\ e \in {EpochsError, GradAccError}
    \/ label = "encode_template" /\ e \in EncodeNoneErrors
    \/ label = "collator_first" /\ e \in {TemplateError, TextFieldError}
    \/ label = "load_dataset" /\ e = "KeyError: 'None'"
    \/ label = "controller_callback"
          /\ e = "AttributeError: 'NoneType' object has no attribute 'append'"

\* C15 as amended: the stages run in the order Validating, Loading,
\* Normalizing, Collating (first evaluation, with its precondition check),
\* Formatting, CallbackAssembly, Collating (second evaluation),
\* TrainerConstruction, MetadataTracking, Training, Done, each step staying
\* in a stage or entering the next one; the policy is selected before the
\* dataset is loaded and the controller callback is added after it; a run
\* ends only at Done or at a failure raised by the validation, by the
\* encoding of a null response template, by the first collation check, by
\* the formatting of a null text field, or by the append to a null
\* callback list.
C15_StagesInCodeOrder ==
    [][ /\ (pc' # pc /\ pc' # "failed")
            => StageIndex(pc') \in {StageIndex(pc), StageIndex(pc) + 1}
        /\ pc' = "failed" => (pc # "failed" => FailsAt(pc, error'))
        /\ pc' # "exited"
        /\ resized' => ModelAndTokenizerLoaded'
        /\ PolicySelected' => resized'
        /\ json_dataset'.loaded => PolicySelected'
        /\ ControllerAdded' => json_dataset'.loaded
        /\ trainer'.built => (json_dataset'.loaded
                              /\ (ControllerFileSupplied' => ControllerAdded'))
        /\ trackerCalls' # <<>> => trainer'.built
        /\ pc' \in {"start_training", "training", "done"} => trainer'.built
      ]_vars

C15_Witness ==
    /\ pc = "done"
    /\ trainer.built
    /\ ControllerAdded
    /\ PolicySelected
    /\ json_dataset.loaded
    /\ trackerCalls # <<>>

\* ------------------------------------------------------------ C16
TemplateMaskedUnusable ==
    /\ ~train_args.packing
    /\ (data_args.response_template = None \/ data_args.dataset_text_field = None)
RejectedByValidation == pc = "failed" /\ error \in {EpochsError, GradAccError}

\* C16 as stated: with packing=false and a null response template or a null
\* dataset text field, no model load and no dataset load has happened when
\* the failure is raised.
C16_FailsBeforeAnyLoad ==
    (TemplateMaskedUnusable /\ pc = "failed") => loads = <<>>

\* C16 as amended: with packing=false and a null response template or a
\* null dataset text field, the job never loads the dataset and never gets
\* past the first collation check; when the failure is raised the model and
\* the tokenizer have been loaded, unless the numeric validation had
\* already rejected the configuration with nothing loaded.
C16_FailsAfterModelLoadBeforeDataset ==
    TemplateMaskedUnusable
    => /\ ~json_dataset.loaded
       /\ \A i \in 1..Len(loads) : loads[i] # "dataset"
       /\ pc = "failed" \/ StageIndex(pc) <= StageIndex("collator_first")
       /\ pc = "collator_first" => ENABLED train_collator_first
       /\ pc = "failed"
            => IF RejectedByValidation
               THEN loads = <<>>
               ELSE loads = <<"model", "tokenizer">>

C16_Witness ==
    /\ TemplateMaskedUnusable
    /\ data_args.response_template # None
    /\ pc = "failed"
    /\ error = TextFieldError
    /\ loads = <<"model", "tokenizer">>

\* ------------------------------------------------------------ C17
\* C17: the response-template token ids are computed only after
\* the resize step has finished, and the training data is tokenized (by the
\* trainer) only after it.
C17_TemplateIdsAfterResize ==
    /\ response_template_ids # None => resized
    /\ trainer.built => resized

\* The order train follows instead: the response-template token ids are
\* computed after the family-specific tokens are set and before the missing
\* tokens are detected and added and the embeddings resized, so the resize
\* finds the ids already computed and leaves them as they are; the trainer,
\* which tokenizes the training data, is built only after the resize.
TemplateIdsBeforeResize ==
    [][ /\ response_template_ids' # response_template_ids
            => (~resized' /\ special_tokens_dict' = {}
                /\ pc = "encode_template")
        /\ resized' => response_template_ids' # None
        /\ (resized' /\ ~resized)
            => (response_template_ids' = response_template_ids
                /\ response_template_ids # None)
        /\ trainer'.built => resized'
      ]_vars

\* ------------------------------------------------------------ C18
\* The two collation policies as the trainer receives them.
Packed ==
    /\ trainer.packing = "True"
    /\ trainer.data_collator.none
TemplateMasked ==
    /\ trainer.packing = "False"
    /\ ~trainer.data_collator.none
    /\ response_template_ids # None
    /\ trainer.data_collator.response_template_ids = response_template_ids

\* C18: whenever the trainer is constructed exactly one collation policy is
\* active and the packing flag alone determines it: packing=true if and
\* only if the trainer receives packing enabled and no data collator,
\* packing=false if and only if it receives packing disabled and a
\* template-masking collator built from the response-template ids; it
\* never receives packing enabled with a collator nor packing disabled
\* without one.
C18_OnePolicyByPackingFlag ==
    trainer.built
    => /\ train_args.packing <=> Packed
       /\ ~train_args.packing <=> TemplateMasked
       /\ ~(Packed /\ TemplateMasked)
       /\ ~(trainer.packing = "True" /\ ~trainer.data_collator.none)
       /\ ~(trainer.packing = "False" /\ trainer.data_collator.none)
       /\ trainer.packing \in {"True", "False"}

C18_Witness ==
    /\ trainer.built
    /\ ~train_args.packing
    /\ TemplateMasked
    /\ pc = "done"

\* ------------------------------------------------------------ C19
\* C19: the second evaluation of the packing / collator decision selects
\* the policy and the collator the first evaluation selected, for every
\* configuration that reaches it, and never takes a sys.exit(-1) path: no
\* run ends through those exits.
C19_SecondEvaluationRedundant ==
    [][ /\ pc = "collator_second"
            => /\ pc' = "construct_trainer"
               /\ data_collator' = data_collator
               /\ packing' = packing
               /\ packing = IF train_args.packing THEN "True" ELSE "False"
               /\ error' = None
        /\ pc' # "exited"
        /\ error' # "SystemExit: -1"
      ]_vars

C19_Witness ==
    /\ pc = "construct_trainer"
    /\ ~train_args.packing
    /\ packing = "False"
    /\ ~data_collator.none
    /\ data_collator.response_template_ids = response_template_ids
    /\ error = None

\* ------------------------------------------------------------ C20
\* The callback list the caller of train supplies: main() passes the list
\* it assembled, a direct caller its own argument.
CallerCallbacks ==
    IF cfg.entry = "main"
    THEN List(InitialCallbacks(cfg.tracker_callback))
    ELSE cfg.callbacks

\* C20: train changes the caller's callback list only by appending: with a
\* controller config file exactly one controller callback is added, at the
\* end, every earlier element keeping its position; with null controller
\* args or a null config file the trainer receives the caller's list
\* unchanged; the trainer is never constructed with a config file supplied
\* and no controller callback in the chain.
C20_CallbacksOnlyAppended ==
    /\ (~InMain /\ ~callbacks.none)
          => /\ ~CallerCallbacks.none
             /\ IsPrefix(CallerCallbacks.items, callbacks.items)
             /\ Len(callbacks.items) <= Len(CallerCallbacks.items) + 1
    /\ (~InMain /\ callbacks.none) => CallerCallbacks.none
    /\ trainer.built
          => IF ControllerFileSupplied
             THEN /\ ~trainer.callbacks.none
                  /\ trainer.callbacks.items
                        = CallerCallbacks.items \o <<ControllerCallback>>
             ELSE trainer.callbacks = CallerCallbacks

C20_Witness ==
    /\ trainer.built
    /\ cfg.entry = "direct"
    /\ ControllerFileSupplied
    /\ cfg.callbacks = List(<<"custom_callback">>)
    /\ trainer.callbacks.items = <<"custom_callback", ControllerCallback>>

====
